---- MODULE Spec2Model ----
(***************************************************************************)
(* srcFacts: a streaming scanner over srcML markup (src/srcFacts.cpp).     *)
(*                                                                         *)
(* The model keeps the byte buffer, the view `contents` over it (as the    *)
(* two offsets cpos, cend into the buffer), the unread rest of standard    *)
(* input and every local of main() that outlives one loop iteration.  One  *)
(* action models one branch of the if/else-if chain of the scanning loop.  *)
(*                                                                         *)
(* Bytes are one-character strings.  Values of type size_t are integers    *)
(* taken modulo 2^64; std::string_view::npos (2^64 - 1) is written -1,     *)
(* which is also what the conversion to int at the call sites produces,    *)
(* so that npos + 1 = 0 as in the program.                                 *)
(***************************************************************************)
EXTENDS Integers, Sequences, FiniteSets, TLC

\* ------------------------------------------------------------ constants

BUFFER_SIZE == 1048576

NPOS == 0 - 1

\* the largest value of an int, the type of the counters and of depth
INT_MAX == 2147483647

\* contents.size() < 5 at the loop top: refill
MinLookahead == 5

\* contents.size() < 100 / < 200: look for '>' before parsing an end / start tag
EndTagWindow == 100

StartTagWindow == 200

\* ------------------------------------------------------------ bounds

\* number of items drawn after the head of a generated document
MaxItems == 2

\* items of a document in the runs on short documents, at most
MaxShortItems == 1

\* buffer.size() in the runs that fill the buffer: more than every refill
\* window of the loop, far less than BUFFER_SIZE
ScaledBufferSize == 256

\* interrupted calls of READ before one that returns, at most, in the runs
\* in which signals arrive
MaxInterrupts == 1

\* reads that return fewer bytes than are available, per run

\* ------------------------------------------------------------ bytes

SPACE_CHARS == {" ", "\n", "\t", "\r", "VT", "\f"}

Lower == {"a","b","c","d","e","f","g","h","i","j","k","l","m",
          "n","o","p","q","r","s","t","u","v","w","x","y","z"}

Upper == {"A","B","C","D","E","F","G","H","I","J","K","L","M",
          "N","O","P","Q","R","S","T","U","V","W","X","Y","Z"}

Digit == {"0","1","2","3","4","5","6","7","8","9"}

\* the bits set in tagNameMask: letters, digits, '-', '_', '.'
tagNameMask == Lower \cup Upper \cup Digit \cup {"-", "_", "."}

\* ------------------------------------------------------------ sequences

Min2(a, b) == IF a <= b THEN a ELSE b

RECURSIVE Flatten(_)
Flatten(ss) == IF ss = << >> THEN << >> ELSE Head(ss) \o Flatten(Tail(ss))

\* std::count(first, last, c)
Count(seq, c) == Cardinality({i \in 1..Len(seq) : seq[i] = c})

\* ------------------------------------------------------------ the view
(* A view is the byte range [p, e) of the buffer, p and e counted from the  *)
(* start of the buffer.  remove_prefix moves p and leaves e alone.          *)

\* the byte at offset i of the buffer's storage: what was written there
\* last, or the ' ' the buffer was constructed with
Mem(buf, i) == IF i < Len(buf) THEN buf[i + 1] ELSE " "

\* contents.substr(0, n) of the view [p, e): n = npos takes all of it
Substr(buf, p, e, n) ==
    IF n = NPOS \/ p + n > e THEN SubSeq(buf, p + 1, e) ELSE SubSeq(buf, p + 1, p + n)

\* contents.find(c), contents.find_first_of(set): first offset in [p, e)
\* holding a byte of cs, relative to p
FindFirstOf(buf, p, e, cs) ==
    IF \E j \in p..(e - 1) : buf[j + 1] \in cs
    THEN (CHOOSE j \in p..(e - 1) :
            buf[j + 1] \in cs /\ \A i \in p..(j - 1) : buf[i + 1] \notin cs) - p
    ELSE NPOS

Find(buf, p, e, c) == FindFirstOf(buf, p, e, {c})

\* contents.find_first_not_of(set)
FindFirstNotOf(buf, p, e, cs) ==
    IF \E j \in p..(e - 1) : buf[j + 1] \notin cs
    THEN (CHOOSE j \in p..(e - 1) :
            buf[j + 1] \notin cs /\ \A i \in p..(j - 1) : buf[i + 1] \in cs) - p
    ELSE NPOS

\* contents.find(pattern) for a pattern of several bytes
MatchAt(buf, j, pat) == \A k \in 1..Len(pat) : buf[j + k] = pat[k]

FindStr(buf, p, e, pat) ==
    IF \E j \in p..(e - Len(pat)) : MatchAt(buf, j, pat)
    THEN (CHOOSE j \in p..(e - Len(pat)) :
            MatchAt(buf, j, pat) /\ \A i \in p..(j - 1) : ~MatchAt(buf, i, pat)) - p
    ELSE NPOS

\* std::distance(&contents[0], std::find_if_not(begin + from, end, tagNameMask)):
\* the offset of the first byte at or after `from` that is no name byte, or size()
NameEnd(buf, p, e, from) ==
    LET k == FindFirstNotOf(buf, p + from, e, tagNameMask)
    IN  IF k = NPOS THEN e - p ELSE from + k

\* std::none_of(begin, end, c == '>')
NoneIs(buf, p, e, c) == \A j \in p..(e - 1) : buf[j + 1] # c

\* the bytes at offsets 0.. of the view equal pat, each read by operator[]
\* (no bounds check: an offset at or past size() reads the buffer's storage)
StartsWith(buf, p, pat) == \A k \in 1..Len(pat) : Mem(buf, p + k - 1) = pat[k]

\* whether testing pat byte by byte, stopping at the first mismatch, reads
\* an offset at or past size()
ReadsPast(buf, p, e, pat) ==
    \E k \in 1..Len(pat) :
        /\ p + k - 1 >= e
        /\ \A j \in 1..(k - 1) : Mem(buf, p + j - 1) = pat[j]

S_xmlns == <<"x","m","l","n","s">>

S_cdata == <<"<","!","[","C","D","A","T","A","[">>

S_xmldecl == <<"<","?","x","m","l"," ">>

S_badcomment == <<"<","!","=","=">>

S_endComment == <<"-","-",">">>

S_endCDATA == <<"]","]",">">>

S_endPI == <<"?",">">>

S_version == <<"v","e","r","s","i","o","n">>

S_encoding == <<"e","n","c","o","d","i","n","g">>

S_standalone == <<"s","t","a","n","d","a","l","o","n","e">>

S_url == <<"u","r","l">>

S_expr == <<"e","x","p","r">>

S_decl == <<"d","e","c","l">>

S_comment == <<"c","o","m","m","e","n","t">>

S_function == <<"f","u","n","c","t","i","o","n">>

S_unit == <<"u","n","i","t">>

S_class == <<"c","l","a","s","s">>

\* qName.find(':') on a name held as a sequence
SeqFind(seq, c) == FindFirstOf(seq, 0, Len(seq), {c})

Quotes == {"\"", "'"}

\* contents.remove_prefix(contents.find_first_not_of(SPACE_CHARS)): the new
\* start of the view.  When nothing but white space is left the argument is
\* npos, which is more than size(): the unchecked library adds it to the
\* pointer all the same, which moves the start of the view back by one byte.
SkipSpace(buf, p, e) ==
    LET k == FindFirstNotOf(buf, p, e, SPACE_CHARS)
    IN  IF k = NPOS THEN p - 1 ELSE p + k

\* whether that call passes npos to remove_prefix
SkipSpacePast(buf, p, e) == FindFirstNotOf(buf, p, e, SPACE_CHARS) = NPOS

\* a + n on int: past INT_MAX or below -INT_MAX - 1 the result is undefined,
\* and a build that does not check wraps around
IntAdd(a, n) ==
    IF n > 0 /\ a > INT_MAX - n
    THEN (a - INT_MAX) + ((n - INT_MAX) - 2)
    ELSE IF n < 0 /\ a < (0 - INT_MAX - 1) - n
    THEN ((a + INT_MAX) + 1) + ((n + INT_MAX) + 1)
    ELSE a + n

\* a long is written <<high, low>>, its value high * 2^30 + low, low < 2^30
Limb == (INT_MAX - 1) \div 2 + 1

\* a + n on long, n an int that is not negative
LongAdd(a, n) ==
    LET low == a[2] + (n % Limb)
    IN  <<a[1] + (n \div Limb) + (low \div Limb), low % Limb>>

\* ------------------------------------------------------------ outcomes
(* A handler maps the scanner's state, a record s, to the state after the  *)
(* iteration.  Field ub records that the iteration used the view outside   *)
(* its bounds (operator[] at or past size(), remove_prefix of more than    *)
(* size()), which the C++ library leaves undefined.                        *)

\* the message written but the return forgotten: scanning goes on
FailAndGoOn(s, ub, msg) == [s EXCEPT !.err = msg, !.ub = ub]

\* std::cerr << "parser error ..."; return 1;
Fail(s, ub, msg) == [s EXCEPT !.pc = "error", !.err = msg, !.ub = ub]

\* remove_prefix(n) with size() < n < npos, or a view starting before the
\* buffer: the length wraps around to about 2^64 and every later search runs
\* out of the buffer's storage.  From here the program can crash, loop or
\* stop with an error; it cannot leave the loop through the break, which
\* needs size() < 5.
Undefined(s) == [s EXCEPT !.pc = "undefined", !.ub = TRUE]

\* the view starts at p from now on
Advance(s, ub, p) == [s EXCEPT !.cpos = p, !.ub = ub]

\* ------------------------------------------------------------ tag close
\* the end of a namespace or attribute item: '>' opens the element, "/>"
\* closes it at once, anything else leaves the scanner inside the start tag
CloseTag(s, ub, p) ==
    LET buf == s.buffer
        e == s.cend
    IN  IF Mem(buf, p) = ">"
        THEN [s EXCEPT !.cpos = p + 1, !.inTag = FALSE, !.depth = IntAdd(@, 1), !.ub = ub]
        ELSE IF Mem(buf, p) = "/" /\ Mem(buf, p + 1) = ">"
        THEN IF p + 2 > e THEN Undefined(s)
             ELSE [s EXCEPT !.cpos = p + 2, !.inTag = FALSE, !.ub = ub]
        ELSE Advance(s, ub \/ (Mem(buf, p) = "/" /\ p + 1 >= e), p)

\* ------------------------------------------------------------ namespace
ParseNamespace(s) ==
    LET buf == s.buffer
        e == s.cend
        p1 == s.cpos + 5
        nameEndPosition == Find(buf, p1, e, "=")
    IN  IF nameEndPosition = NPOS THEN Fail(s, s.ub, "incomplete namespace")
        ELSE
        LET hasPrefix == buf[p1 + 1] = ":"
            p2 == IF hasPrefix THEN p1 + 1 ELSE p1
            nameEnd2 == IF hasPrefix THEN nameEndPosition - 1 ELSE nameEndPosition
            p3 == p2 + nameEnd2 + 1
            p4 == SkipSpace(buf, p3, e)
            ub4 == s.ub \/ SkipSpacePast(buf, p3, e)
        IN  IF p4 = e THEN Fail(s, ub4, "incomplete namespace")
            ELSE IF buf[p4 + 1] \notin Quotes THEN Fail(s, ub4, "incomplete namespace")
            ELSE
            LET delimiter == buf[p4 + 1]
                p5 == p4 + 1
                valueEndPosition == Find(buf, p5, e, delimiter)
            IN  IF valueEndPosition = NPOS THEN Fail(s, ub4, "incomplete namespace")
                ELSE
                LET p6 == p5 + valueEndPosition + 1
                    p7 == SkipSpace(buf, p6, e)
                IN  CloseTag(s, ub4 \/ SkipSpacePast(buf, p6, e), p7)

\* ------------------------------------------------------------ attribute
\* localName == "url": url = value
StoreUrl(s, localName, value) ==
    IF localName = S_url THEN [s EXCEPT !.url = value] ELSE s

ParseAttribute(s) ==
    LET buf == s.buffer
        e == s.cend
        p0 == s.cpos
        nameEndPosition == NameEnd(buf, p0, e, 0)
    IN  IF nameEndPosition = e - p0 THEN Fail(s, s.ub, "Empty attribute name")
        ELSE
        LET qName == SubSeq(buf, p0 + 1, p0 + nameEndPosition)
            found == SeqFind(qName, ":")
        IN  IF found = 0 THEN Fail(s, s.ub, "Invalid attribute name")
            ELSE
            LET colonPosition == IF found = NPOS THEN 0 ELSE found
                localName == IF colonPosition # 0
                             THEN SubSeq(qName, colonPosition + 2, Len(qName))
                             ELSE qName
                p1 == p0 + nameEndPosition
                p2 == SkipSpace(buf, p1, e)
                ub2 == s.ub \/ SkipSpacePast(buf, p1, e)
            IN  IF p2 < 0 THEN Undefined(s)
                ELSE IF p2 = e THEN Fail(s, ub2, "incomplete attribute")
                ELSE IF buf[p2 + 1] # "=" THEN Fail(s, ub2, "missing =")
                ELSE
                LET p3 == p2 + 1
                    p4 == SkipSpace(buf, p3, e)
                    ub4 == ub2 \/ SkipSpacePast(buf, p3, e)
                    delimiter == buf[p4 + 1]
                IN  IF delimiter \notin Quotes THEN Fail(s, ub4, "missing delimiter")
                    ELSE
                    LET p5 == p4 + 1
                        valueEndPosition == Find(buf, p5, e, delimiter)
                    IN  \* int compared with size_t: -1 is converted to 2^64 - 1
                        IF valueEndPosition = e - p5 THEN Fail(s, ub4, "missing delimiter")
                        ELSE
                        LET value == Substr(buf, p5, e, valueEndPosition)
                            p6 == p5 + valueEndPosition + 1
                            p7 == SkipSpace(buf, p6, e)
                        IN  CloseTag(StoreUrl(s, localName, value),
                                     ub4 \/ SkipSpacePast(buf, p6, e), p7)

\* ------------------------------------------------------------ refill
\* refillBuffer(buffer, contents) when READ returns n: n > 0 bytes taken from
\* the input, 0 at the end of the input, -1 on a read error
refillBuffer(s, n) ==
    LET size == s.cend - s.cpos
        moved == SubSeq(s.buffer, s.cpos + 1, s.cend)
                    \o SubSeq(s.buffer, size + 1, Len(s.buffer))
    IN  IF n < 0 THEN [s EXCEPT !.buffer = moved]
        ELSE IF n = 0 THEN [s EXCEPT !.buffer = moved, !.cpos = 0, !.cend = 0]
        ELSE [s EXCEPT !.buffer = SubSeq(moved, 1, size) \o SubSeq(s.input, 1, n)
                                    \o SubSeq(moved, size + n + 1, Len(moved)),
                       !.cpos = 0,
                       !.cend = size + n,
                       !.input = SubSeq(s.input, n + 1, Len(s.input))]

\* int bytesRead = refillBuffer(buffer, contents); if (bytesRead < 0) error;
\* totalBytes += bytesRead;
RefillAndCount(s, n) ==
    IF n < 0 THEN Fail(refillBuffer(s, n), s.ub, "File input error")
    ELSE [refillBuffer(s, n) EXCEPT !.totalBytes = LongAdd(@, n)]

\* ------------------------------------------------------------ comment
ParseXMLComment(s) ==
    LET buf == s.buffer
        e == s.cend
        p1 == IF s.inXMLComment THEN s.cpos ELSE s.cpos + 4
    IN  IF s.cpos = e THEN Fail(s, s.ub, "Unterminated XML comment")
        ELSE IF p1 > e THEN Undefined(s)
        ELSE
        LET tagEndPosition == FindStr(buf, p1, e, S_endComment)
            stillIn == tagEndPosition = e - p1
            n == IF ~stillIn THEN tagEndPosition + 1 + Len(S_endComment)
                 ELSE tagEndPosition
            s1 == [s EXCEPT !.inXMLComment = stillIn]
        IN  IF n > e - p1 THEN Undefined(s1) ELSE Advance(s1, s.ub, p1 + n)

\* ------------------------------------------------------------ CDATA
ParseCDATA(s) ==
    LET buf == s.buffer
        e == s.cend
        p1 == IF s.inCDATA THEN s.cpos ELSE s.cpos + 9
    IN  IF s.cpos = e THEN Fail(s, s.ub, "Unterminated CDATA")
        ELSE IF p1 > e THEN Undefined(s)
        ELSE
        LET tagEndPosition == FindStr(buf, p1, e, S_endCDATA)
            stillIn == tagEndPosition = e - p1
            characters == Substr(buf, p1, e, tagEndPosition)
            n == IF ~stillIn THEN tagEndPosition + Len(S_endCDATA) + 1
                 ELSE tagEndPosition
            s1 == [s EXCEPT !.inCDATA = stillIn,
                            !.textsize = IntAdd(@, Len(characters)),
                            !.loc = IntAdd(@, Count(characters, "\n"))]
        IN  IF n > e - p1 THEN Undefined(s1) ELSE Advance(s1, s.ub, p1 + n)

\* ------------------------------------------------------------ processing instruction
ParsePIBody(s) ==
    LET buf == s.buffer
        e == s.cend
        tagEndPosition == FindStr(buf, s.cpos, e, S_endPI)
        p1 == s.cpos + 2
        nameEndPosition == NameEnd(buf, p1, e, 0)
        p2 == p1 + nameEndPosition
        p3 == p2 + tagEndPosition
    IN  IF nameEndPosition = 0
        THEN Fail(s, s.ub, "Unterminated processing instruction")
        ELSE IF p3 > e \/ p3 + 2 > e THEN Undefined(s)
        ELSE Advance(s, s.ub, p3 + 2)

PINeedsRefill(s) == FindStr(s.buffer, s.cpos, s.cend, S_endPI) = NPOS

ParsePI(s, n) ==
    IF PINeedsRefill(s)
    THEN LET r == RefillAndCount(s, n)
         IN  IF r.pc = "error" THEN r
             ELSE IF PINeedsRefill(r) THEN Fail(r, r.ub, "Incomplete XML declaration")
             ELSE ParsePIBody(r)
    ELSE ParsePIBody(s)

\* ------------------------------------------------------------ end tag
ParseEndTagBody(s) ==
    LET buf == s.buffer
        e == s.cend
        p1 == s.cpos + 2
        nameEndPosition == NameEnd(buf, p1, e, 0)
    IN  IF p1 > e THEN Undefined(s)
        ELSE IF Mem(buf, p1) = ":" THEN Fail(s, s.ub \/ p1 >= e, "Invalid end tag name")
        ELSE IF nameEndPosition = e - p1
        THEN Fail(s, s.ub \/ p1 >= e, "Unterminated end tag")
        ELSE IF nameEndPosition = 0
        THEN Fail(s, s.ub, "EndTag: invalid element name")
        ELSE [s EXCEPT !.cpos = p1 + nameEndPosition + 1, !.depth = IntAdd(@, 0 - 1)]

EndTagNeedsRefill(s) ==
    /\ s.cend - s.cpos < EndTagWindow
    /\ NoneIs(s.buffer, s.cpos, s.cend, ">")

ParseEndTag(s, n) ==
    IF EndTagNeedsRefill(s)
    THEN LET r == RefillAndCount(s, n)
         IN  IF r.pc = "error" THEN r
             ELSE IF NoneIs(r.buffer, r.cpos, r.cend, ">")
             THEN Fail(r, r.ub, "Incomplete element end tag")
             ELSE ParseEndTagBody(r)
    ELSE ParseEndTagBody(s)

\* ------------------------------------------------------------ start tag
\* the counter of the element's local name; a unit directly under the root
\* makes the document an archive
\* the archive test taken before the root's own start tag instead of after it
IsArchiveDepthAtRoot(depth) == depth = 0

IsArchiveDepth(depth) == depth = 1

CountElement(s, localName) ==
    IF localName = S_expr THEN [s EXCEPT !.exprCount = IntAdd(@, 1)]
    ELSE IF localName = S_decl THEN [s EXCEPT !.declCount = IntAdd(@, 1)]
    ELSE IF localName = S_comment THEN [s EXCEPT !.commentCount = IntAdd(@, 1)]
    ELSE IF localName = S_function THEN [s EXCEPT !.functionCount = IntAdd(@, 1)]
    ELSE IF localName = S_unit
    THEN [s EXCEPT !.unitCount = IntAdd(@, 1),
                   !.isArchive = @ \/ IsArchiveDepth(s.depth)]
    ELSE IF localName = S_class THEN [s EXCEPT !.classCount = IntAdd(@, 1)]
    ELSE s

ParseStartTagBody(s) ==
    LET buf == s.buffer
        e == s.cend
        p1 == s.cpos + 1
        firstEnd == NameEnd(buf, p1, e, 0)
    IN  IF Mem(buf, p1) = ":" THEN Fail(s, s.ub \/ p1 >= e, "Invalid start tag name")
        ELSE IF firstEnd = e - p1
        THEN Fail(s, s.ub \/ p1 >= e, "Unterminated start tag")
        ELSE
        LET hasColon == buf[p1 + firstEnd + 1] = ":"
            colonPosition == IF hasColon THEN firstEnd ELSE 0
            nameEndPosition == IF hasColon THEN NameEnd(buf, p1, e, firstEnd + 1)
                               ELSE firstEnd
            qName == SubSeq(buf, p1 + 1, p1 + nameEndPosition)
            localName == IF colonPosition # 0
                         THEN SubSeq(qName, colonPosition + 2, Len(qName))
                         ELSE qName
        IN  IF qName = << >> THEN Fail(s, s.ub, "StartTag: invalid element name")
            ELSE
            LET s1 == CountElement(s, localName)
                p2 == p1 + nameEndPosition
                skip == Mem(buf, p2) # ">"
                p3 == IF skip THEN SkipSpace(buf, p2, e) ELSE p2
                ub3 == s.ub \/ p2 >= e \/ (skip /\ SkipSpacePast(buf, p2, e))
            IN  IF Mem(buf, p3) = ">"
                THEN IF p3 + 1 > e THEN Undefined(s1)
                     ELSE [s1 EXCEPT !.cpos = p3 + 1, !.depth = IntAdd(@, 1), !.ub = ub3]
                ELSE IF Mem(buf, p3) = "/" /\ Mem(buf, p3 + 1) = ">"
                THEN IF p3 + 2 > e THEN Undefined(s1)
                     ELSE [s1 EXCEPT !.cpos = p3 + 2, !.ub = ub3]
                ELSE [s1 EXCEPT !.cpos = p3, !.inTag = TRUE,
                                !.ub = ub3 \/ (Mem(buf, p3) = "/" /\ p3 + 1 >= e)]

StartTagNeedsRefill(s) ==
    /\ s.cend - s.cpos < StartTagWindow
    /\ NoneIs(s.buffer, s.cpos, s.cend, ">")

ParseStartTag(s, n) ==
    IF StartTagNeedsRefill(s)
    THEN LET r == RefillAndCount(s, n)
         IN  IF r.pc = "error" THEN r
             ELSE IF NoneIs(r.buffer, r.cpos, r.cend, ">")
             THEN Fail(r, r.ub, "Incomplete element start tag")
             ELSE ParseStartTagBody(r)
    ELSE ParseStartTagBody(s)

\* ------------------------------------------------------------ text
\* characters before or after the root element
ParseOutside(s) ==
    LET p1 == SkipSpace(s.buffer, s.cpos, s.cend)
    IN  IF p1 < 0 THEN Undefined(s)
        ELSE Advance(s, s.ub \/ SkipSpacePast(s.buffer, s.cpos, s.cend), p1)

\* the bytes an entity reference takes: "&lt;" "&gt;" "&amp;" or a lone '&'
EntityLength(buf, p) ==
    IF Mem(buf, p + 1) = "l" /\ Mem(buf, p + 2) = "t" /\ Mem(buf, p + 3) = ";" THEN 4
    ELSE IF Mem(buf, p + 1) = "g" /\ Mem(buf, p + 2) = "t" /\ Mem(buf, p + 3) = ";" THEN 4
    ELSE IF Mem(buf, p + 1) = "a" /\ Mem(buf, p + 2) = "m" /\ Mem(buf, p + 3) = "p"
            /\ Mem(buf, p + 4) = ";" THEN 5
    ELSE 1

ParseEntity(s) ==
    [s EXCEPT !.cpos = @ + EntityLength(s.buffer, s.cpos), !.textsize = IntAdd(@, 1)]

ParseCharacters(s) ==
    LET tagEndPosition == FindFirstOf(s.buffer, s.cpos, s.cend, {"<", "&"})
        characters == Substr(s.buffer, s.cpos, s.cend, tagEndPosition)
    IN  [s EXCEPT !.loc = IntAdd(@, Count(characters, "\n")),
                  !.textsize = IntAdd(@, Len(characters)),
                  !.cpos = @ + Len(characters)]

\* ------------------------------------------------------------ XML declaration
\* the third attribute of the declaration and the closing "?>"; limit is
\* tagEndPosition, the offset '>' had before anything was removed, which the
\* code goes on using as a length: contents.substr(0, tagEndPosition)
ParseXMLDeclThird(s, ub, p10, limit, standaloneSet) ==
    LET buf == s.buffer
        e == s.cend
        nameEndPosition == Find(buf, p10, Min2(e, p10 + limit), "=")
        attr2 == Substr(buf, p10, e, nameEndPosition)
        p11 == p10 + nameEndPosition + 1
        ub11 == ub \/ p11 >= e
        delimiter2 == Mem(buf, p11)
        p12 == p11 + 1
        valueEndPosition == Find(buf, p12, Min2(e, p12 + limit), delimiter2)
        p13 == p12 + valueEndPosition + 1
        k == FindFirstNotOf(buf, p13, Min2(e, p13 + limit), SPACE_CHARS)
        p14 == IF k = NPOS THEN p13 - 1 ELSE p13 + k
        p15 == p14 + 2
        p16 == SkipSpace(buf, p15, e)
    IN  IF nameEndPosition = NPOS
        THEN Fail(s, ub, "Incomplete attribute in XML declaration")
        ELSE IF delimiter2 \notin Quotes
        THEN Fail(s, ub11, "Invalid end delimiter for attribute in XML declaration")
        ELSE IF p12 > e THEN Undefined(s)
        ELSE IF valueEndPosition = NPOS
        THEN Fail(s, ub11, "Incomplete attribute in XML declaration")
        ELSE IF standaloneSet \/ attr2 # S_standalone
        THEN Fail(s, ub11, "Invalid attribute in XML declaration")
        ELSE IF p15 > e THEN Undefined(s)
        ELSE Advance(s, ub11 \/ k = NPOS \/ SkipSpacePast(buf, p15, e), p16)

\* the second attribute: encoding or standalone
ParseXMLDeclSecond(s, ub, p6, limit) ==
    LET buf == s.buffer
        e == s.cend
        nameEndPosition == Find(buf, p6, e, "=")
        attr2 == Substr(buf, p6, e, nameEndPosition)
        p7 == p6 + nameEndPosition + 1
        ub7 == ub \/ p7 >= e
        delimiter2 == Mem(buf, p7)
        p8 == p7 + 1
        valueEndPosition == Find(buf, p8, e, delimiter2)
        p9 == p8 + valueEndPosition + 1
        p10 == SkipSpace(buf, p9, e)
    IN  IF delimiter2 \notin Quotes
        THEN Fail(s, ub7, "Invalid end delimiter for attribute in XML declaration")
        ELSE IF p8 > e THEN Undefined(s)
        ELSE IF attr2 # S_encoding /\ attr2 # S_standalone
        THEN Fail(s, ub7, "Invalid attribute in XML declaration")
        ELSE ParseXMLDeclThird(s, ub7 \/ SkipSpacePast(buf, p9, e), p10, limit,
                               attr2 = S_standalone)

\* "<?xml", the version attribute, then the other two
ParseXMLDeclBody(s) ==
    LET buf == s.buffer
        e == s.cend
        tagEndPosition == Find(buf, s.cpos, e, ">")
        p1 == s.cpos + 5
        p2 == SkipSpace(buf, p1, e)
        ub2 == s.ub \/ SkipSpacePast(buf, p1, e)
        nameEndPosition == Find(buf, p2, e, "=")
        attr == Substr(buf, p2, e, nameEndPosition)
        p3 == p2 + nameEndPosition + 1
        ub3 == ub2 \/ p3 >= e
        delimiter == Mem(buf, p3)
        p4 == p3 + 1
        valueEndPosition == Find(buf, p4, e, delimiter)
        p5 == p4 + valueEndPosition + 1
        p6 == SkipSpace(buf, p5, e)
    IN  IF delimiter \notin Quotes
        THEN Fail(s, ub3, "Invalid start delimiter for version in XML declaration")
        ELSE IF p4 > e THEN Undefined(s)
        ELSE IF valueEndPosition = NPOS
        THEN Fail(s, ub3, "Invalid end delimiter for version in XML declaration")
        ELSE IF attr # S_version
        THEN Fail(s, ub3, "Missing required first attribute version in XML declaration")
        ELSE ParseXMLDeclSecond(s, ub3 \/ SkipSpacePast(buf, p5, e), p6, tagEndPosition)

XMLDeclNeedsRefill(s) == Find(s.buffer, s.cpos, s.cend, ">") = NPOS

ParseXMLDecl(s, n) ==
    IF XMLDeclNeedsRefill(s)
    THEN LET r == RefillAndCount(s, n)
         IN  IF r.pc = "error" THEN r
             ELSE IF XMLDeclNeedsRefill(r) THEN Fail(r, r.ub, "Incomplete XML declaration")
             ELSE ParseXMLDeclBody(r)
    ELSE ParseXMLDeclBody(s)

\* ------------------------------------------------------------ the loop
\* which branch of the if/else-if chain the iteration takes
Classify(s) ==
    LET buf == s.buffer
        p == s.cpos
    IN  IF s.cend - s.cpos < MinLookahead THEN "refill"
        ELSE IF s.inTag /\ StartsWith(buf, p, S_xmlns)
                /\ Mem(buf, p + 5) \in {":", "="} THEN "namespace"
        ELSE IF s.inTag THEN "attribute"
        ELSE IF s.inXMLComment \/ SubSeq(buf, p + 1, s.cend) = S_badcomment THEN "comment"
        ELSE IF s.inCDATA \/ StartsWith(buf, p, S_cdata) THEN "cdata"
        ELSE IF StartsWith(buf, p, S_xmldecl) THEN "xmldecl"
        ELSE IF StartsWith(buf, p, <<"<", "?">>) THEN "pi"
        ELSE IF StartsWith(buf, p, <<"<", "/">>) THEN "endtag"
        ELSE IF Mem(buf, p) = "<" THEN "starttag"
        ELSE IF s.depth = 0 THEN "outside"
        ELSE IF Mem(buf, p) = "&" THEN "entity"
        ELSE "characters"

\* whether choosing the branch reads contents[i] with i >= contents.size():
\* contents[5] after "xmlns" or "<?xml", contents[5..8] after "<![CD"
ClassifyReadsPast(s) ==
    LET buf == s.buffer
        p == s.cpos
        e == s.cend
    IN  /\ e - p >= MinLookahead
        /\ IF s.inTag THEN ReadsPast(buf, p, e, S_xmlns \o <<":">>)
           ELSE /\ ~s.inXMLComment
                /\ ~s.inCDATA
                /\ ReadsPast(buf, p, e, S_cdata) \/ ReadsPast(buf, p, e, S_xmldecl)

\* the state at the start of an iteration
Enter(s) == [s EXCEPT !.ub = ClassifyReadsPast(s)]

\* contents.size() < 5: refill, and leave the loop when nothing is left
LoopRefill(s, n) ==
    LET r == RefillAndCount(s, n)
    IN  IF r.pc = "error" THEN r
        ELSE IF ~r.inXMLComment /\ ~r.inCDATA /\ r.cend = r.cpos
        THEN [r EXCEPT !.pc = "report"]
        ELSE r

\* int files = unitCount; if (isArchive) --files;
Files(unitCount, isArchive) == IF isArchive THEN unitCount - 1 ELSE unitCount

\* the report after the loop, and return 0
Report(s) == [s EXCEPT !.pc = "done", !.files = Files(s.unitCount, s.isArchive)]

\* whether the iteration calls refillBuffer
CallsRefill(s) ==
    LET k == Classify(s)
    IN  \/ k = "refill"
        \/ k = "xmldecl" /\ XMLDeclNeedsRefill(s)
        \/ k = "pi" /\ PINeedsRefill(s)
        \/ k = "endtag" /\ EndTagNeedsRefill(s)
        \/ k = "starttag" /\ StartTagNeedsRefill(s)

\* one iteration of while (true), READ returning n if it is called
Step(s, n) ==
    LET k == Classify(s)
        pre == Enter(s)
    IN  CASE k = "refill" -> LoopRefill(pre, n)
          [] k = "namespace" -> ParseNamespace(pre)
          [] k = "attribute" -> ParseAttribute(pre)
          [] k = "comment" -> ParseXMLComment(pre)
          [] k = "cdata" -> ParseCDATA(pre)
          [] k = "xmldecl" -> ParseXMLDecl(pre, n)
          [] k = "pi" -> ParsePI(pre, n)
          [] k = "endtag" -> ParseEndTag(pre, n)
          [] k = "starttag" -> ParseStartTag(pre, n)
          [] k = "outside" -> ParseOutside(pre)
          [] k = "entity" -> ParseEntity(pre)
          [] k = "characters" -> ParseCharacters(pre)

\* what one call of READ leaves: its return value and errno
Returned(n) == [ret |-> n, errno |-> ""]

Interrupted == [ret |-> 0 - 1, errno |-> "EINTR"]

Failed == [ret |-> 0 - 1, errno |-> "EIO"]

\* READ called once, its failure by EINTR not told from any other
ReadOnce(outs) == outs[1].ret

\* while ((readBytes = READ(...)) == -1 && errno == EINTR) {}: the calls of
\* READ leave outs, one after the other; readBytes after the loop
RetryRead(outs) ==
    LET again(o) == o.ret = 0 - 1 /\ o.errno = "EINTR"
        last == CHOOSE i \in 1..Len(outs) :
                    ~again(outs[i]) /\ \A j \in 1..(i - 1) : again(outs[j])
    IN  outs[last].ret

\* readBytes in an iteration whose calls of READ leave outs (none: no call)
ReadBytes(outs) == IF Len(outs) = 0 THEN 0 ELSE RetryRead(outs)

\* what READ(0, buffer.data() + size, buffer.size() - size) returns when
\* the source hands over at most chunk bytes per call
ReadReturns(s, chunk) ==
    Min2(Min2(chunk, Len(s.input)), s.capacity - (s.cend - s.cpos))

\* main() as it starts on the input
Start(in) ==
    [buffer |-> << >>, capacity |-> BUFFER_SIZE, cpos |-> 0, cend |-> 0,
     input |-> in,
     url |-> << >>, textsize |-> 0, loc |-> 0,
     exprCount |-> 0, functionCount |-> 0, classCount |-> 0,
     unitCount |-> 0, declCount |-> 0, commentCount |-> 0,
     depth |-> 0, totalBytes |-> <<0, 0>>,
     inTag |-> FALSE, inXMLComment |-> FALSE, inCDATA |-> FALSE,
     isArchive |-> FALSE, files |-> 0,
     pc |-> "scan", err |-> "", ub |-> FALSE]

\* the whole run on one input with no read error: the state main() ends in,
\* or the state it repeats for ever
RECURSIVE Run(_, _)
Run(s, chunk) ==
    IF s.pc = "report" THEN Report(s)
    ELSE IF s.pc # "scan" THEN s
    ELSE LET r == Step(s, ReadReturns(s, chunk))
         IN  IF r = s THEN s ELSE Run(r, chunk)

\* ------------------------------------------------------------ inputs
(* A document is a head, up to MaxItems items and a tail, each a piece of  *)
(* markup or text.                                                         *)

I_unit == <<"<","u","n","i","t",">">>

I_unitEnd == <<"<","/","u","n","i","t",">">>

I_unitEndNL == <<"<","/","u","n","i","t",">","\n">>

I_expr == <<"<","e","x","p","r","/",">">>

I_sunit == <<"<","s",":","u","n","i","t",">">>

I_sunitEnd == <<"<","/","s",":","u","n","i","t",">">>

I_text == <<"a","\n","b">>

I_lt == <<"&","l","t",";">>

I_cdata == <<"<","!","[","C","D","A","T","A","[",
             "l","i","n","e","1","\n","l","i","n","e","2","]","]",">">>

I_pi == <<"<","?","p","i"," ","x","?",">">>

I_decl == <<"<","d","e","c","l"," ","x","m","l","n","s",":","s","=","'","v","'",
            " ","u","r","l","=","\"","u","\"",">">>

I_space == <<"\n"," "," "," "," ">>

I_comment == <<"<","!","-","-","c","-","-",">">>

I_xmldecl == <<"<","?","x","m","l"," ","v","e","r","s","i","o","n","=","\"","1","\"",
               " ","e","n","c","o","d","i","n","g","=","\"","U","\"",
               " ","s","t","a","n","d","a","l","o","n","e","=","\"","y","\"","?",">">>

Heads == {<< >>, <<I_unit>>, <<I_xmldecl, I_unit>>}

Items == {I_expr, I_sunit, I_sunitEnd, I_unit, I_unitEnd, I_text, I_lt,
          I_cdata, I_pi, I_decl, I_space, I_comment}

Tails == {<< >>, <<I_unitEnd>>, <<I_unitEndNL>>}

ItemSeqs == UNION {[1..n -> Items] : n \in 0..MaxItems}

\* the piece lists of all documents
Docs == {h \o m \o t : h \in Heads, m \in ItemSeqs, t \in Tails}

\* pieces of markup the scanner has to reject, and a root and a declaration
\* with other attributes
I_unitUrl == <<"<","u","n","i","t"," ","u","r","l","=","\"","r","\"",">">>

I_xmldeclV == <<"<","?","x","m","l"," ","v","e","r","s","i","o","n","=","\"","1","\"",
                "?",">">>

I_colonStart == <<"<",":","f","o","o",">">>

I_colonEnd == <<"<","/",":","f","o","o",">">>

I_attrColon == <<"<","a"," ","x",":","=","\"","v","\"",">">>

I_badquote == <<"<","d","e","c","l"," ","u","r","l","=","\"","x",">">>

I_openComment == <<"<","!","-","-","c">>

MarkupHeads == {<< >>, <<I_unitUrl>>, <<I_xmldeclV, I_unit>>}

MarkupItems == {I_colonStart, I_colonEnd, I_attrColon, I_badquote, I_openComment,
                I_decl, I_cdata, I_pi, I_text, I_lt}

MarkupItemSeqs == UNION {[1..n -> MarkupItems] : n \in 0..MaxItems}

MarkupDocs == {h \o m \o t : h \in MarkupHeads, m \in MarkupItemSeqs, t \in Tails}

\* a processing instruction that does not end within one buffer
I_longPI == <<"<","?","p","i"," ">> \o [i \in 1..ScaledBufferSize |-> "x"]
                \o <<"?",">">>

\* short documents, some of them longer than the buffer
FullHeads == Heads \cup {<<I_longPI, I_unit>>}

FullItemSeqs == UNION {[1..n -> Items \cup {I_longPI}] : n \in 0..MaxShortItems}

FullDocs == {h \o m \o t : h \in FullHeads, m \in FullItemSeqs, t \in Tails}

\* short documents
InterruptDocs ==
    {h \o m \o t : h \in Heads, m \in UNION {[1..n -> Items] : n \in 0..MaxShortItems},
                     t \in Tails}

\* the text, none of it a newline, that a long run has counted already
ScannedText == INT_MAX - 2

\* the bytes of it that the last read delivered and that are still in the
\* buffer's storage
StaleText == [i \in 1..8 |-> "a"]

\* what follows that text in the document: a few items and the tail
LongRunItemSeqs == UNION {[1..n -> Items \cup {I_xmldecl}] : n \in 0..MaxShortItems}

LongRunDocs == {m \o t : m \in LongRunItemSeqs, t \in Tails}

\* bytes a read hands over at most; BUFFER_SIZE is the whole input at once
ChunkSizes == {1, 4, 8, BUFFER_SIZE}

\* ------------------------------------------------------------ state

VARIABLES buffer, capacity, cpos, cend, input,
          url, textsize, loc,
          exprCount, functionCount, classCount, unitCount, declCount, commentCount,
          depth, totalBytes, inTag, inXMLComment, inCDATA, isArchive, files,
          pc, err, ub,
          pieces, chunk, signals, kind, reads, stalled, rootClosed, afterRoot,
          unitUnderRoot

vars == <<buffer, capacity, cpos, cend, input, url, textsize, loc,
          exprCount, functionCount, classCount, unitCount, declCount, commentCount,
          depth, totalBytes, inTag, inXMLComment, inCDATA, isArchive, files,
          pc, err, ub, pieces, chunk, signals, kind, reads, stalled,
          rootClosed, afterRoot, unitUnderRoot>>

\* the scanner's state as the record the handlers work on
State ==
    [buffer |-> buffer, capacity |-> capacity, cpos |-> cpos, cend |-> cend,
     input |-> input,
     url |-> url, textsize |-> textsize, loc |-> loc,
     exprCount |-> exprCount, functionCount |-> functionCount,
     classCount |-> classCount, unitCount |-> unitCount,
     declCount |-> declCount, commentCount |-> commentCount,
     depth |-> depth, totalBytes |-> totalBytes,
     inTag |-> inTag, inXMLComment |-> inXMLComment, inCDATA |-> inCDATA,
     isArchive |-> isArchive, files |-> files,
     pc |-> pc, err |-> err, ub |-> ub]

\* the iteration of kind k, ending in state r, closes the root element: an
\* end tag takes depth from 1 to 0, or "/>" ends a start tag entered at depth 0
ClosesRoot(r, k) ==
    /\ r.pc = "scan"
    /\ r.depth = 0
    /\ ~r.inTag
    /\ \/ k = "endtag" /\ depth = 1
       \/ k \in {"starttag", "namespace", "attribute"} /\ depth = 0

\* the iteration of kind k counts a unit start tag met at depth 1
CountsUnitUnderRoot(r, k) ==
    k = "starttag" /\ r.unitCount = unitCount + 1 /\ depth = 1

\* the iteration of kind k, its calls of READ leaving outs, ends in state r.
\* kind, reads, stalled, rootClosed, afterRoot and unitUnderRoot record the
\* run's history and are read by no handler.
CommitReads(r, k, outs) ==
    /\ buffer' = r.buffer
    /\ capacity' = r.capacity
    /\ cpos' = r.cpos
    /\ cend' = r.cend
    /\ input' = r.input
    /\ url' = r.url
    /\ textsize' = r.textsize
    /\ loc' = r.loc
    /\ exprCount' = r.exprCount
    /\ functionCount' = r.functionCount
    /\ classCount' = r.classCount
    /\ unitCount' = r.unitCount
    /\ declCount' = r.declCount
    /\ commentCount' = r.commentCount
    /\ depth' = r.depth
    /\ totalBytes' = r.totalBytes
    /\ inTag' = r.inTag
    /\ inXMLComment' = r.inXMLComment
    /\ inCDATA' = r.inCDATA
    /\ isArchive' = r.isArchive
    /\ files' = r.files
    /\ pc' = r.pc
    /\ err' = r.err
    /\ ub' = r.ub
    /\ kind' = k
    /\ reads' = outs
    /\ stalled' = (r.pc = "scan" /\ r.input = input /\ r.cpos <= cpos /\ r.cend = cend)
    /\ rootClosed' = (rootClosed \/ ClosesRoot(r, k))
    /\ afterRoot' = IF ~rootClosed /\ ClosesRoot(r, k)
                    THEN SubSeq(r.buffer, r.cpos + 1, r.cend) \o r.input
                    ELSE afterRoot
    /\ unitUnderRoot' = (unitUnderRoot \/ CountsUnitUnderRoot(r, k))
    /\ UNCHANGED <<pieces, chunk, signals>>

\* an iteration that does not call READ
Commit(r, k) == CommitReads(r, k, << >>)

\* the bytes of the document
Doc == Flatten(pieces)

\* the state main() starts the loop in, the document and its delivery given
Boot ==
    /\ kind = "start"
    /\ reads = << >>
    /\ stalled = FALSE
    /\ rootClosed = FALSE
    /\ afterRoot = << >>
    /\ unitUnderRoot = FALSE
    /\ buffer = << >>
    /\ cpos = 0
    /\ cend = 0
    /\ input = Flatten(pieces)
    /\ url = << >>
    /\ textsize = 0
    /\ loc = 0
    /\ exprCount = 0
    /\ functionCount = 0
    /\ classCount = 0
    /\ unitCount = 0
    /\ declCount = 0
    /\ commentCount = 0
    /\ depth = 0
    /\ totalBytes = <<0, 0>>
    /\ inTag = FALSE
    /\ inXMLComment = FALSE
    /\ inCDATA = FALSE
    /\ isArchive = FALSE
    /\ files = 0
    /\ pc = "scan"
    /\ err = ""
    /\ ub = FALSE

Init ==
    /\ pieces \in Docs
    /\ chunk \in ChunkSizes
    /\ capacity = BUFFER_SIZE
    /\ signals = 0
    /\ Boot

\* a run on a document that may hold malformed markup
MarkupInit ==
    /\ pieces \in MarkupDocs
    /\ chunk \in ChunkSizes
    /\ capacity = BUFFER_SIZE
    /\ signals = 0
    /\ Boot

\* a run on a document longer than the buffer, the buffer scaled down
FullInit ==
    /\ pieces \in FullDocs
    /\ chunk \in ChunkSizes
    /\ capacity = ScaledBufferSize
    /\ signals = 0
    /\ Boot

\* the results READ can give: the next bytes (none at the end of the input)
\* or a failure other than EINTR
ReadResults(s) == {ReadReturns(s, chunk), 0 - 1}

\* an iteration that reads takes any result of READ, one that does not takes none
Reads(s) == IF CallsRefill(s) THEN ReadResults(s) ELSE {0}

\* the calls of READ in an iteration that refills: up to signals interrupted
\* ones, then one that returns or fails
ReadSeqs(s) ==
    IF CallsRefill(s)
    THEN {[i \in 1..k |-> Interrupted] \o <<f>> :
            k \in 0..signals, f \in {Returned(ReadReturns(s, chunk)), Failed}}
    ELSE {<< >>}

Scanning(k) == pc = "scan" /\ Classify(State) = k

Refill ==
    /\ Scanning("refill")
    /\ \E outs \in ReadSeqs(State) :
         \E r \in {LoopRefill(Enter(State), ReadBytes(outs))} : CommitReads(r, "refill", outs)

Namespace ==
    /\ Scanning("namespace")
    /\ \E r \in {ParseNamespace(Enter(State))} : Commit(r, "namespace")

Attribute ==
    /\ Scanning("attribute")
    /\ \E r \in {ParseAttribute(Enter(State))} : Commit(r, "attribute")

\* not a disjunct of Next: CommentBranchIsDead shows its guard is never true
XMLComment ==
    /\ Scanning("comment")
    /\ \E r \in {ParseXMLComment(Enter(State))} : Commit(r, "comment")

CDATA ==
    /\ Scanning("cdata")
    /\ \E r \in {ParseCDATA(Enter(State))} : Commit(r, "cdata")

XMLDecl ==
    /\ Scanning("xmldecl")
    /\ \E outs \in ReadSeqs(State) :
         \E r \in {ParseXMLDecl(Enter(State), ReadBytes(outs))} : CommitReads(r, "xmldecl", outs)

PI ==
    /\ Scanning("pi")
    /\ \E outs \in ReadSeqs(State) :
         \E r \in {ParsePI(Enter(State), ReadBytes(outs))} : CommitReads(r, "pi", outs)

EndTag ==
    /\ Scanning("endtag")
    /\ \E outs \in ReadSeqs(State) :
         \E r \in {ParseEndTag(Enter(State), ReadBytes(outs))} : CommitReads(r, "endtag", outs)

StartTag ==
    /\ Scanning("starttag")
    /\ \E outs \in ReadSeqs(State) :
         \E r \in {ParseStartTag(Enter(State), ReadBytes(outs))} : CommitReads(r, "starttag", outs)

Outside ==
    /\ Scanning("outside")
    /\ \E r \in {ParseOutside(Enter(State))} : Commit(r, "outside")

Entity ==
    /\ Scanning("entity")
    /\ \E r \in {ParseEntity(Enter(State))} : Commit(r, "entity")

Characters ==
    /\ Scanning("characters")
    /\ \E r \in {ParseCharacters(Enter(State))} : Commit(r, "characters")

\* the iteration from s to r took an int past its range: a counter, to which
\* an iteration adds less than 2^31, is lower than it was, or depth moved by
\* more than 1
Overflows(s, r) ==
    \/ r.textsize < s.textsize
    \/ r.loc < s.loc
    \/ r.exprCount < s.exprCount
    \/ r.declCount < s.declCount
    \/ r.commentCount < s.commentCount
    \/ r.functionCount < s.functionCount
    \/ r.unitCount < s.unitCount
    \/ r.classCount < s.classCount
    \/ r.depth < s.depth - 1
    \/ r.depth > s.depth + 1

\* a build that checks (library assertions, trapping arithmetic) ends the
\* process at the first use of the view outside its bounds or int out of
\* range instead of carrying on
Abort ==
    /\ pc = "scan"
    /\ \E n \in Reads(State) :
         LET r == Step(State, n) IN r.ub \/ Overflows(State, r)
    /\ \E r \in {[State EXCEPT !.pc = "abort", !.ub = TRUE]} : Commit(r, "abort")

Finish ==
    /\ pc = "report"
    /\ \E r \in {Report(State)} : Commit(r, "report")

Next ==
    \/ Refill
    \/ Namespace
    \/ Attribute
    \/ CDATA
    \/ XMLDecl
    \/ PI
    \/ EndTag
    \/ StartTag
    \/ Outside
    \/ Entity
    \/ Characters
    \/ Abort
    \/ Finish

Spec == Init /\ [][Next]_vars

MarkupSpec == MarkupInit /\ [][Next]_vars

FullSpec == FullInit /\ [][Next]_vars

\* a run in which signals interrupt READ, on a short document
InterruptInit ==
    /\ pieces \in InterruptDocs
    /\ chunk \in ChunkSizes
    /\ capacity = BUFFER_SIZE
    /\ signals = MaxInterrupts
    /\ Boot

InterruptSpec == InterruptInit /\ [][Next]_vars

\* a run as it stands after <unit> and ScannedText bytes of text, all of them
\* consumed; pieces is the rest of the document
LongRunInit ==
    /\ pieces \in LongRunDocs
    /\ chunk \in ChunkSizes
    /\ capacity = BUFFER_SIZE
    /\ signals = 0
    /\ kind = "characters"
    /\ reads = << >>
    /\ stalled = FALSE
    /\ rootClosed = FALSE
    /\ afterRoot = << >>
    /\ unitUnderRoot = FALSE
    /\ buffer = StaleText
    /\ cpos = Len(StaleText)
    /\ cend = Len(StaleText)
    /\ input = Flatten(pieces)
    /\ url = << >>
    /\ textsize = ScannedText
    /\ loc = 0
    /\ exprCount = 0
    /\ functionCount = 0
    /\ classCount = 0
    /\ unitCount = 1
    /\ declCount = 0
    /\ commentCount = 0
    /\ depth = 1
    /\ totalBytes = LongAdd(<<0, Len(I_unit)>>, ScannedText)
    /\ inTag = FALSE
    /\ inXMLComment = FALSE
    /\ inCDATA = FALSE
    /\ isArchive = FALSE
    /\ files = 0
    /\ pc = "scan"
    /\ err = ""
    /\ ub = FALSE

LongRunSpec == LongRunInit /\ [][Next]_vars

\* the comment branch is taken in no reachable state
CommentBranchIsDead == pc = "scan" => Classify(State) # "comment"

\* ------------------------------------------------------------ properties

\* what a run ends with: acceptance with its Metrics, or a fatal error
Outcome(s) ==
    IF s.pc = "done"
    THEN <<"accepted", s.url, s.textsize, s.loc, s.exprCount, s.declCount,
           s.commentCount, s.functionCount, s.unitCount, s.classCount>>
    ELSE <<s.pc>>

\* the run on the same document delivered by one read
WholeDelivery == Run(Start(Doc), BUFFER_SIZE)

\* the pieces form one root element with every element closed by its own end
\* tag and all other content inside the root
RECURSIVE Balanced(_, _, _)
Balanced(ps, i, open) ==
    IF i > Len(ps) THEN open = << >>
    ELSE IF ps[i] = I_xmldecl THEN i = 1 /\ Balanced(ps, i + 1, open)
    ELSE IF ps[i] = I_unit
    THEN (i = 1 \/ open # << >> \/ (ps[1] = I_xmldecl /\ i = 2))
         /\ Balanced(ps, i + 1, <<"unit">> \o open)
    ELSE IF ps[i] = I_sunit
    THEN open # << >> /\ Balanced(ps, i + 1, <<"s:unit">> \o open)
    ELSE IF ps[i] \in {I_unitEnd, I_unitEndNL}
    THEN open # << >> /\ Head(open) = "unit"
         /\ (Len(open) = 1 => i = Len(ps))
         /\ Balanced(ps, i + 1, Tail(open))
    ELSE IF ps[i] = I_sunitEnd
    THEN open # << >> /\ Head(open) = "s:unit" /\ Balanced(ps, i + 1, Tail(open))
    ELSE IF ps[i] = I_decl THEN FALSE
    ELSE open # << >> /\ Balanced(ps, i + 1, open)

WellFormed == Balanced(pieces, 1, << >>)

\* the number of pieces of the document that are one of the given pieces
Pieces(which) == Cardinality({i \in 1..Len(pieces) : pieces[i] \in which})

\* the bytes left after the root element closed are all whitespace
OnlySpaceAfterRoot == \A i \in 1..Len(afterRoot) : afterRoot[i] \in SPACE_CHARS

\* C1: however the reads cut a well-formed document, a run that ends (other
\* than by a failing read) ends as the run on the same document delivered by
\* one read does: accepted with the same Metrics, or with a fatal error.
C1_BufferBoundaryInvariance ==
    WellFormed /\ (pc = "done" \/ (pc = "error" /\ err # "File input error"))
        => Outcome(State) = Outcome(WholeDelivery)

\* C2: when the scanner finishes successfully the depth is exactly 0 and it
\* is not inside an open start tag.
C2_AcceptedAtDepthZero == pc = "done" => depth = 0 /\ ~inTag

\* C3: once the root element has closed, no step changes depth or a Metrics
\* field, whatever bytes follow.
C3_NothingAfterRootCloses ==
    [][rootClosed => UNCHANGED <<depth, url, textsize, loc, exprCount, declCount,
                                 commentCount, functionCount, unitCount,
                                 classCount>>]_vars

\* C4: a run in which the root element closed is accepted only when the bytes
\* left after it were all whitespace, and ends in a fatal error only when they
\* were not, the error being "extra content at end of document".
C4_TrailingContent ==
    /\ pc = "done" /\ rootClosed => OnlySpaceAfterRoot
    /\ pc = "error" /\ rootClosed /\ err # "File input error"
        => ~OnlySpaceAfterRoot /\ err = "extra content at end of document"

\* C5: every iteration that does not refill and does not fail consumes at
\* least one byte of the view, so the loop cannot repeat a state for ever.
C5_EveryIterationConsumes == ~stalled

\* C6: on a well-formed document without CDATA sections and processing
\* instructions no iteration inspects a byte at or past the view's length or
\* consumes more than the view holds, whether or not a read fails.
C6_ViewAccessInBounds ==
    WellFormed /\ Pieces({I_cdata, I_pi}) = 0 /\ err # "File input error" => ~ub

\* C7: on an accepted well-formed document without processing instructions
\* each counter equals the number of start tags with its local name: unit for
\* <unit> and <s:unit>, expr for <expr/>, and none for the other four names,
\* which such documents do not use.
C7_CountersMatchStartTags ==
    pc = "done" /\ WellFormed /\ Pieces({I_pi}) = 0
        => /\ unitCount = Pieces({I_unit, I_sunit})
           /\ exprCount = Pieces({I_expr})
           /\ declCount = 0
           /\ commentCount = 0
           /\ functionCount = 0
           /\ classCount = 0

\* C8 as stated: on acceptance the file count is max(unitCount - 1, 1).
C8_FilesIsFlooredUnitCount ==
    pc = "done" => files = (IF unitCount - 1 >= 1 THEN unitCount - 1 ELSE 1)

\* C8 amended: on acceptance the file count is unitCount - 1 when a unit start
\* tag was accepted at depth 1, directly under the root, and unitCount
\* otherwise.
C8_FilesIsUnitCountLessWrapper ==
    pc = "done" => files = (IF unitUnderRoot THEN unitCount - 1 ELSE unitCount)

\* an accepted well-formed archive: units directly under the root unit, one
\* file fewer than units
C8_ArchiveAccepted ==
    /\ pc = "done"
    /\ WellFormed
    /\ depth = 0
    /\ unitUnderRoot
    /\ unitCount >= 2
    /\ files = unitCount - 1

\* C9: on an accepted well-formed document without processing instructions
\* the line count is the number of newlines in its text runs and CDATA
\* bodies: one in each text, whitespace and CDATA piece.
C9_LocIsNewlinesInText ==
    pc = "done" /\ WellFormed /\ Pieces({I_pi}) = 0
        => loc = Pieces({I_text, I_space, I_cdata})

\* C10: in a well-formed document a CDATA section whose terminator is in the
\* view is consumed as opener, body and terminator and no more, and adds the
\* body's length to the text volume and the body's newlines to the line count.
C10_CDATAConsumedExactly ==
    [][(/\ WellFormed
        /\ pc = "scan"
        /\ Classify(State) = "cdata"
        /\ FindStr(buffer, cpos + Len(S_cdata), cend, S_endCDATA) # NPOS
        /\ pc' = "scan")
       => LET bodyLen == FindStr(buffer, cpos + Len(S_cdata), cend, S_endCDATA)
              body == Substr(buffer, cpos + Len(S_cdata), cend, bodyLen)
          IN  /\ SubSeq(buffer', cpos' + 1, cend')
                    = SubSeq(buffer, cpos + Len(S_cdata) + bodyLen
                                          + Len(S_endCDATA) + 1, cend)
              /\ textsize' = textsize + bodyLen
              /\ loc' = loc + Count(body, "\n")]_vars

\* the value of the last url attribute among the first i pieces, empty if
\* there is none
RECURSIVE LastUrl(_, _)
LastUrl(ps, i) ==
    IF i = 0 THEN << >>
    ELSE IF ps[i] = I_unitUrl THEN <<"r">>
    ELSE IF ps[i] = I_decl THEN <<"u">>
    ELSE LastUrl(ps, i - 1)

\* a root unit with a url attribute holding decl start tags, CDATA sections,
\* text and entity references, closed by its end tag
UrlDocument ==
    /\ Len(pieces) >= 2
    /\ pieces[1] = I_unitUrl
    /\ pieces[Len(pieces)] \in {I_unitEnd, I_unitEndNL}
    /\ \A i \in 2..(Len(pieces) - 1) : pieces[i] \in {I_decl, I_cdata, I_text, I_lt}

\* C11: on an accepted document the identifier is the value of the last url
\* attribute in document order, on the root or on any other element.
C11_UrlIsLastUrlAttribute ==
    pc = "done" /\ UrlDocument => url = LastUrl(pieces, Len(pieces))

\* C12: every error is fatal.  Once a read has failed or a handler has found
\* malformed markup the scanner has stopped with exit code 1 and the report is
\* not written; the report is written, and exit code 0 returned, only by a run
\* that met no error.
C12_ErrorsAreFatal ==
    /\ err # "" => pc = "error" /\ kind # "report"
    /\ pc = "error" => err # ""
    /\ kind = "report" => pc = "done" /\ err = ""

\* malformed markup met after a unit was counted: no report of the partial
\* metrics
C12_StoppedWithPartialMetrics ==
    /\ pc = "error"
    /\ err \notin {"", "File input error"}
    /\ kind # "report"
    /\ unitCount > 0

\* a root unit holding text and entity references and then a comment that is
\* opened and never closed
OpenCommentDocument ==
    /\ Len(pieces) >= 2
    /\ pieces[1] = I_unitUrl
    /\ pieces[Len(pieces)] = I_openComment
    /\ \A i \in 2..(Len(pieces) - 1) : pieces[i] \in {I_text, I_lt}

\* C13: a run on a document whose comment is never closed, delivered by one
\* read, ends, unless the read fails, in the fatal error for an unterminated
\* comment.
C13_UnterminatedCommentIsReported ==
    /\ OpenCommentDocument
    /\ chunk = BUFFER_SIZE
    /\ pc \in {"done", "error"}
    /\ err # "File input error"
    => pc = "error" /\ err = "Unterminated XML comment"

\* the bytes of the view
View == SubSeq(buffer, cpos + 1, cend)

\* the view begins with the bytes pat
ViewStarts(pat) == Len(View) >= Len(pat) /\ SubSeq(View, 1, Len(pat)) = pat

\* the messages that report an invalid name
InvalidNameErrors ==
    {"Invalid start tag name", "Invalid end tag name", "Invalid attribute name",
     "StartTag: invalid element name", "EndTag: invalid element name"}

\* the view begins with an attribute whose name ends in ':' before the '='
AttributeNameEndsInColon ==
    LET k == NameEnd(buffer, cpos, cend, 0)
    IN  k >= 1 /\ Mem(buffer, cpos + k) = ":" /\ Mem(buffer, cpos + k + 1) = "="

\* C14: the iteration that meets a start tag or an end tag whose name begins
\* with ':', the tag's '>' being in the view, or an attribute written x:="v",
\* ends in a fatal invalid-name error.
C14_ColonNamesAreInvalid ==
    [][(/\ pc = "scan"
        /\ kind' # "abort"
        /\ \/ Classify(State) = "starttag" /\ ViewStarts(<<"<", ":">>)
                                           /\ Count(View, ">") > 0
           \/ Classify(State) = "endtag" /\ ViewStarts(<<"<", "/", ":">>)
                                         /\ Count(View, ">") > 0
           \/ Classify(State) = "attribute" /\ AttributeNameEndsInColon)
       => pc' = "error" /\ err' \in InvalidNameErrors]_vars

\* C15: an XML declaration with the version attribute alone, wholly in the
\* view, is accepted: the iteration that meets it ends without error, having
\* consumed the declaration and nothing else.
C15_VersionAloneIsAccepted ==
    [][(/\ pc = "scan"
        /\ kind' # "abort"
        /\ Classify(State) = "xmldecl"
        /\ ViewStarts(I_xmldeclV))
       => /\ pc' = "scan"
          /\ SubSeq(buffer', cpos' + 1, cend')
                = SubSeq(View, Len(I_xmldeclV) + 1, Len(View))]_vars

\* C16: a run on the empty input, whose first read returns end-of-input, ends
\* in a fatal error and writes no report.
C16_EmptyInputIsAnError ==
    Doc = << >> /\ pc \in {"done", "error"} /\ err # "File input error"
        => pc = "error" /\ kind # "report"

\* depth and the Metrics are left as they are
MetricsUnchanged ==
    UNCHANGED <<depth, url, textsize, loc, exprCount, declCount, commentCount,
                functionCount, unitCount, classCount>>

\* the view after its first n bytes are consumed
ViewAfter(n) == SubSeq(View, n + 1, Len(View))

S_comment_open == <<"<", "!", "-", "-">>

\* C17: in a well-formed document the iteration that meets a comment inside
\* the root element, its terminator in the view, ends without error, consumes
\* opener, body and terminator and nothing else, and leaves depth and the
\* Metrics unchanged.
C17_CommentIsSkipped ==
    [][(/\ WellFormed
        /\ pc = "scan"
        /\ kind' # "abort"
        /\ Classify(State) \notin {"refill", "namespace", "attribute"}
        /\ depth >= 1
        /\ ViewStarts(S_comment_open)
        /\ FindStr(buffer, cpos + Len(S_comment_open), cend, S_endComment) # NPOS)
       => LET bodyLen == FindStr(buffer, cpos + Len(S_comment_open), cend,
                                 S_endComment)
          IN  /\ pc' = "scan"
              /\ SubSeq(buffer', cpos' + 1, cend')
                    = ViewAfter(Len(S_comment_open) + bodyLen + Len(S_endComment))
              /\ MetricsUnchanged]_vars

\* C18: in a well-formed document the iteration that meets a processing
\* instruction with a non-empty target, its "?>" in the view, consumes the
\* bytes from "<?" through the first "?>" and nothing else, and leaves depth
\* and the Metrics unchanged.
C18_PIConsumedExactly ==
    [][(/\ WellFormed
        /\ pc = "scan"
        /\ kind' # "abort"
        /\ Classify(State) = "pi"
        /\ NameEnd(buffer, cpos + 2, cend, 0) > 0
        /\ FindStr(buffer, cpos, cend, S_endPI) # NPOS)
       => LET tagEnd == FindStr(buffer, cpos, cend, S_endPI)
          IN  /\ pc' = "scan"
              /\ SubSeq(buffer', cpos' + 1, cend') = ViewAfter(tagEnd + Len(S_endPI))
              /\ MetricsUnchanged]_vars

\* C19: on an accepted well-formed document without CDATA sections and
\* processing instructions the text volume is the length of its text runs
\* plus 1 for each entity reference; markup bytes are never counted as text.
C19_TextVolume ==
    pc = "done" /\ WellFormed /\ Pieces({I_pi, I_cdata}) = 0
        => textsize = Len(I_text) * Pieces({I_text})
                      + Len(I_space) * Pieces({I_space})
                      + Pieces({I_lt})

\* the number of bytes of cs in a row in the view from index from on
RunLength(v, from, cs) ==
    IF \E j \in from..Len(v) : v[j] \notin cs
    THEN (CHOOSE j \in from..Len(v) :
            v[j] \notin cs /\ \A i \in from..(j - 1) : v[i] \in cs) - from
    ELSE Len(v) - from + 1

\* the view begins with an attribute name that is not followed by '=', or
\* whose value does not open with a quote, or whose opening quote has no
\* match in the view
MalformedAttribute ==
    LET v == View
        n == RunLength(v, 1, tagNameMask)
        eq == n + 1 + RunLength(v, n + 1, SPACE_CHARS)
        q == eq + 1 + RunLength(v, eq + 1, SPACE_CHARS)
    IN  /\ n >= 1
        /\ \/ eq > Len(v)
           \/ v[eq] # "="
           \/ q > Len(v)
           \/ v[q] \notin Quotes
           \/ \A j \in (q + 1)..Len(v) : v[j] # v[q]

\* C20: the iteration that meets a malformed attribute inside a start tag
\* ends in a fatal error and stores no value for it.
C20_MalformedAttributeIsFatal ==
    [][(/\ pc = "scan"
        /\ kind' # "abort"
        /\ Classify(State) = "attribute"
        /\ MalformedAttribute)
       => pc' = "error" /\ url' = url]_vars

\* C21: whenever an iteration calls refillBuffer and READ does not fail, the
\* view after the call is the view before it followed by the bytes just read
\* (none at the end of the input).
C21_RefillPreservesUnread ==
    pc = "scan" /\ CallsRefill(State)
        => LET n == ReadReturns(State, chunk)
               r == refillBuffer(Enter(State), n)
           IN  SubSeq(r.buffer, r.cpos + 1, r.cend) = View \o SubSeq(input, 1, n)

\* C22: whenever an iteration calls refillBuffer the view is shorter than the
\* buffer, so that READ is asked for at least one byte.
C22_RefillHasHeadroom ==
    pc = "scan" /\ CallsRefill(State) => cend - cpos < capacity

\* C23: an iteration that calls refillBuffer ends, whatever the number of
\* interrupted calls of READ before the one that returns, in the state it
\* ends in when that call is the first; a call that fails otherwise ends the
\* run with the file input error.
C23_InterruptedReadIsRetried ==
    [][(/\ pc = "scan"
        /\ kind' # "abort"
        /\ CallsRefill(State))
       => LET final == reads'[Len(reads')]
          IN  /\ final # Interrupted
              /\ State' = Step(State, final.ret)
              /\ final = Failed => pc' = "error" /\ err' = "File input error"]_vars

\* a refill at the loop top took bytes after an interrupted call of READ
C23_ReadAfterInterrupt ==
    /\ kind = "refill"
    /\ Len(reads) > 1
    /\ reads[1] = Interrupted
    /\ reads[Len(reads)].ret > 0
    /\ pc = "scan"
    /\ cend - cpos >= reads[Len(reads)].ret
    /\ totalBytes # <<0, 0>>

\* C24: no step lowers the text volume, the line count or any of the six
\* element counters.
C24_MetricsNeverDecrease ==
    [][/\ textsize' >= textsize
       /\ loc' >= loc
       /\ exprCount' >= exprCount
       /\ declCount' >= declCount
       /\ commentCount' >= commentCount
       /\ functionCount' >= functionCount
       /\ unitCount' >= unitCount
       /\ classCount' >= classCount]_vars

\* C25: depth is never negative: no end tag is accepted while no element is
\* open.
C25_DepthIsNeverNegative == depth >= 0

====
